---- MODULE Spec2Model ----
(***************************************************************************)
(* Gmail watch renewal: the Watch Scanner (watch-query-function/main.py)   *)
(* and the Renewal Worker (renewal-worker-function/main.py), the two       *)
(* tables they use, and the Pub/Sub topic between them.                    *)
(*                                                                         *)
(* Times of the Scanner's table are whole hours since an epoch (the        *)
(* lookahead is timedelta(hours=2)).  The provider's expiration is epoch   *)
(* milliseconds; the Worker converts it to a datetime, modelled as a       *)
(* record of whole seconds and microseconds.  A nullable value is a set:   *)
(* {} is NULL / None, {v} is the value v.                                  *)
(***************************************************************************)
EXTENDS Integers, Sequences, FiniteSets, TLC

VARIABLES
    now,                  \* datetime.utcnow(), in hours
    gmail_watches,        \* the table the Scanner SELECTs from (physical row order)
    gmail_mailbox_watches,\* the table the Worker UPDATEs
    topic,                \* the gmail-watch-renewal topic: every payload published, in order
    spc,                  \* the Scanner invocation's position
    sconn,                \* the Scanner invocation's store connection
    squeried_at,          \* the value of now when the query ran
    expiration_threshold, \* get_expiring_watches' local
    watches,              \* expiring_watches / watch_list
    sindex,               \* how many watches the publish loop has gone through
    published_count,      \* publish_renewal_messages' local
    response,             \* what watch_query_function returned
    tbase,                \* length of the topic when the invocation began
    wpc,                  \* each Worker invocation's position
    wexit,                \* how renewal_worker_function ended: none / returned / raised
    wlog,                 \* the last outcome renewal_worker_function logged
    wreq,                 \* renewal_request (decoded message), {} when there is none
    wresult,              \* renewal_result
    wconn,                \* update_watch_in_database's conn
    wtx,                  \* rows the invocation's UPDATE changed, not yet committed
    wtrace,               \* what the invocation did: provider calls, connects, UPDATEs, commits
    lastRenewal           \* per account, the provider's latest successful answer

svars == <<spc, sconn, squeried_at, expiration_threshold, watches, sindex, published_count,
           response, tbase>>
wvars == <<wpc, wexit, wlog, wreq, wresult, wconn, wtx, wtrace, lastRenewal>>
vars == <<now, gmail_watches, gmail_mailbox_watches, topic, svars, wvars>>

----------------------------------------------------------------------------
(* Bounds of the model *)
MaxTime == 2
MaxExp == 4
MaxTopic == 4

Some(v) == {v}
None == {}
Get(o) == CHOOSE v \in o : TRUE

----------------------------------------------------------------------------
(* The Watch Scanner *)

hours_ahead == 2

Users == <<"u1", "u2", "u1">>
WatchIds == <<"w1", "w2", "w3">>
Email(u) == IF u = "u1" THEN "u1@example.com" ELSE "u2@example.com"

\* datetime.isoformat(): a text, not the datetime itself
IsoFormat(t) == [iso |-> t]
FromIso(s) == s.iso

\* rows of gmail_watches: expiration_time is nullable
WatchRows(i) ==
    [user_id : {Users[i]}, email : {Email(Users[i])}, watch_id : {WatchIds[i]},
     expiration_time : {None} \cup {Some(t) : t \in 0..MaxExp}, is_active : BOOLEAN]

WatchTables ==
    {t \in [1..Len(WatchIds) -> UNION {WatchRows(i) : i \in 1..Len(WatchIds)}] :
        \A i \in 1..Len(WatchIds) : t[i] \in WatchRows(i)}

\* WHERE expiration_time <= %s AND is_active = true  (a NULL never compares true)
EligibleLate(row, threshold) ==
    /\ row.expiration_time # None
    /\ Get(row.expiration_time) < threshold
    /\ row.is_active
EligibleNotExpired(row, threshold) ==
    /\ row.expiration_time # None
    /\ Get(row.expiration_time) <= threshold
    /\ Get(row.expiration_time) >= threshold - hours_ahead
    /\ row.is_active
Eligible(row, threshold) ==
    /\ row.expiration_time # None
    /\ Get(row.expiration_time) <= threshold
    /\ row.is_active

\* ORDER BY expiration_time ASC: the order of two rows of a result
OrderedAsc(a, b) == Get(a.expiration_time) <= Get(b.expiration_time)

\* cursor.fetchall(): the eligible rows, each once, in an order ORDER BY allows
\* (rows with equal expiration_time come in any order)
FetchAll(table, threshold) ==
    LET ids == {i \in DOMAIN table : Eligible(table[i], threshold)}
        n == Cardinality(ids)
    IN {[k \in 1..n |-> table[p[k]]] :
          p \in {q \in [1..n -> ids] :
                   /\ \A a, b \in 1..n : a # b => q[a] # q[b]
                   /\ \A a, b \in 1..n : a < b => OrderedAsc(table[q[a]], table[q[b]])}}

\* the dictionary built for one fetched row
WatchDict(row) ==
    [user_id |-> row.user_id, email |-> row.email, watch_id |-> row.watch_id,
     expiration_time |-> IF row.expiration_time # None
                         THEN Some(IsoFormat(Get(row.expiration_time))) ELSE None]

WatchList(rows) == [k \in 1..Len(rows) |-> WatchDict(rows[k])]

\* message_data of publish_renewal_messages
MessageData(watch, t) ==
    [user_id |-> watch.user_id, email |-> watch.email, watch_id |-> watch.watch_id,
     action |-> "renew_watch", timestamp |-> IsoFormat(t)]

\* json.dumps(...).encode('utf-8'), and the trigger's base64 of the payload
JsonDumps(d) == [json |-> d]
B64Encode(p) == [b64 |-> p]

\* for watch in watches: the watch of the iteration after `done` iterations
NextWatchReversed(ws, done) == ws[Len(ws) - done]
NextWatch(ws, done) == ws[done + 1]

\* published_count += 1
CountAfterAckStuck(count) == count
CountAfterAck(count) == count + 1

Ok200(msg, n) ==
    [statusCode |-> 200, success |-> TRUE, message |-> msg,
     watches_processed |-> Some(n), error |-> "none"]
Err500(e) ==
    [statusCode |-> 500, success |-> FALSE, message |-> "none",
     watches_processed |-> None, error |-> e]
NoResponse ==
    [statusCode |-> 0, success |-> FALSE, message |-> "none",
     watches_processed |-> None, error |-> "none"]

\* watch_query_function up to the call of get_expiring_watches
ScanInvoke ==
    /\ spc \in {"idle", "done"}
    /\ Len(topic) + Len(gmail_watches) <= MaxTopic
    /\ tbase' = Len(topic)
    /\ sconn' = "none"
    /\ watches' = <<>>
    /\ published_count' = 0
    /\ sindex' = 0
    /\ \E configured \in BOOLEAN :
         IF configured
         THEN spc' = "query" /\ response' = NoResponse
         ELSE spc' = "done" /\ response' = Err500("Missing required environment variables")
    /\ UNCHANGED <<now, gmail_watches, gmail_mailbox_watches, topic, squeried_at,
                   expiration_threshold, wvars>>

\* get_expiring_watches, and watch_query_function's handling of its result.
\* A failure after connect() skips cursor.close() and conn.close(): the except
\* clause only logs and re-raises, so the connection is left to the
\* interpreter's finalizer, which may or may not have run when the invocation ends.
ScanQuery ==
    /\ spc = "query"
    /\ LET threshold == now + hours_ahead IN
       /\ expiration_threshold' = threshold
       /\ squeried_at' = now
       /\ \E outcome \in {"connect_error", "execute_error", "convert_error", "ok"} :
          \E rows \in FetchAll(gmail_watches, threshold) :
            CASE outcome = "connect_error" ->
                   /\ sconn' = "none"
                   /\ watches' = <<>>
                   /\ spc' = "done"
                   /\ response' = Err500("database")
              [] outcome = "execute_error" ->
                   /\ sconn' \in {"open", "finalized"}
                   /\ watches' = <<>>
                   /\ spc' = "done"
                   /\ response' = Err500("database")
              [] outcome = "convert_error" ->
                   /\ rows # <<>>
                   /\ sconn' \in {"open", "finalized"}
                   /\ watches' = <<>>
                   /\ spc' = "done"
                   /\ response' = Err500("database")
              [] outcome = "ok" ->
                   /\ sconn' = "closed"
                   /\ watches' = WatchList(rows)
                   /\ IF watches' = <<>>
                      THEN /\ spc' = "done"
                           /\ response' = Ok200("No expiring watches found", 0)
                      ELSE /\ spc' = "publish"
                           /\ response' = NoResponse
    /\ UNCHANGED <<now, gmail_watches, gmail_mailbox_watches, topic, sindex,
                   published_count, tbase, wvars>>

\* one iteration of publish_renewal_messages' loop: publish, wait for the
\* acknowledgment; a failure is re-raised and becomes the 500 response
ScanPublish ==
    /\ spc = "publish"
    /\ sindex < Len(watches)
    /\ \E acked \in BOOLEAN :
         IF acked
         THEN /\ topic' = Append(topic, B64Encode(JsonDumps(
                              MessageData(NextWatch(watches, sindex), now))))
              /\ published_count' = CountAfterAck(published_count)
              /\ sindex' = sindex + 1
              /\ UNCHANGED <<spc, response>>
         ELSE /\ spc' = "done"
              /\ response' = Err500("publish")
              /\ UNCHANGED <<topic, published_count, sindex>>
    /\ UNCHANGED <<now, gmail_watches, gmail_mailbox_watches, sconn, squeried_at,
                   expiration_threshold, watches, tbase, wvars>>

\* the loop is over: return the count
ScanReturn ==
    /\ spc = "publish"
    /\ sindex = Len(watches)
    /\ spc' = "done"
    /\ response' = Ok200("Published renewal messages", published_count)
    /\ UNCHANGED <<now, gmail_watches, gmail_mailbox_watches, topic, sconn, squeried_at,
                   expiration_threshold, watches, sindex, published_count, tbase, wvars>>

\* time passes
Tick ==
    /\ now < MaxTime
    /\ now' = now + 1
    /\ UNCHANGED <<gmail_watches, gmail_mailbox_watches, topic, svars, wvars>>

----------------------------------------------------------------------------
(* The Renewal Worker *)

Workers == {1, 2}

Accounts == {"A1", "A2"}
MailboxAccounts == <<"A1", "A1", "A2">>

\* rows of gmail_mailbox_watches before any renewal
MailboxRows(i) ==
    [account_id : {MailboxAccounts[i]}, is_active : IF i = 2 THEN {FALSE} ELSE BOOLEAN,
     history_id : {Some("h0")}, watch_expiration : {Some([sec |-> 1, usec |-> 0])}]

MailboxTables ==
    {t \in [1..Len(MailboxAccounts) -> UNION {MailboxRows(i) : i \in 1..Len(MailboxAccounts)}] :
        \A i \in 1..Len(MailboxAccounts) : t[i] \in MailboxRows(i)}

\* required_fields of renewal_worker_function
RequiredFieldsNoAccount == {"user_id", "email", "access_token", "refresh_token"}
RequiredFields == {"account_id", "user_id", "email", "access_token", "refresh_token"}

\* a message that carries every required field
TokenMessage(a) ==
    [account_id |-> a, user_id |-> "u1", email |-> Email("u1"),
     access_token |-> "at", refresh_token |-> "rt"]

MessageFields == DOMAIN TokenMessage("A1")
Without(d, f) == [k \in DOMAIN d \ {f} |-> d[k]]

\* base64.b64decode(...).decode('utf-8') and json.loads: None when they raise
B64Decode(p) == IF "b64" \in DOMAIN p THEN Some(p.b64) ELSE None
JsonLoads(t) == IF "json" \in DOMAIN t THEN Some(t.json) ELSE None
\* whether a decoded JSON value is an object (has .get)
IsObject(v) == "nonobject" \notin DOMAIN v

\* events a trigger can hand to the Worker besides the Scanner's messages
OtherEvents ==
    {[attributes |-> "none"]} \cup
    {[data |-> [raw |-> "not base64"]]} \cup
    {[data |-> B64Encode([text |-> "not json"])]} \cup
    {[data |-> B64Encode(JsonDumps([nonobject |-> TRUE]))]} \cup
    {[data |-> B64Encode(JsonDumps(TokenMessage(a)))] : a \in Accounts} \cup
    {[data |-> B64Encode(JsonDumps(Without(TokenMessage("A1"), f)))] : f \in MessageFields}

\* the provider's answers to users().watch(): historyId, expiration (epoch ms)
ProviderResponses ==
    {[historyId |-> Some("h1"), expiration |-> Some(1500)],
     [historyId |-> Some("h2"), expiration |-> Some(2500)],
     [historyId |-> Some("h1"), expiration |-> None]}

\* datetime.fromtimestamp(int(expiration_ms) / 1000)
FromTimestampMs(ms) == [sec |-> ms \div 1000, usec |-> (ms % 1000) * 1000]

ExceptionKinds ==
    {"ValueError", "KeyError", "TypeError", "AttributeError", "binascii.Error",
     "JSONDecodeError", "HttpError", "TransportError", "OperationalError"}

\* except Exception as e, at the end of renewal_worker_function
WorkerCatchesValueErrorOnly(exc) == exc = "ValueError"
WorkerCatches(exc) == exc \in ExceptionKinds

\* except HttpError / except Exception, in renew_gmail_watch
RenewCatches(exc) == exc \in ExceptionKinds

\* WHERE account_id = %s AND is_active = true
MatchesAnyState(row, account_id) == row.account_id = account_id
Matches(row, account_id) == row.account_id = account_id /\ row.is_active

\* if cursor.rowcount > 0: conn.commit()
Commits(rowcount) == rowcount > 0

NoResult == [success |-> FALSE, history_id |-> None, expiration |-> None]

\* how an invocation ends when exception exc reaches the entry point's handler
\* (renewal_result goes out of scope with the invocation)
WorkerEnds(w, exc, conn, trace) ==
    /\ wpc' = [wpc EXCEPT ![w] = "done"]
    /\ wconn' = [wconn EXCEPT ![w] = conn]
    /\ wtrace' = [wtrace EXCEPT ![w] = trace]
    /\ wtx' = [wtx EXCEPT ![w] = {}]
    /\ wresult' = [wresult EXCEPT ![w] = NoResult]
    /\ IF WorkerCatches(exc)
       THEN /\ wexit' = [wexit EXCEPT ![w] = "returned"]
            /\ wlog' = [wlog EXCEPT ![w] = "failed"]
       ELSE /\ wexit' = [wexit EXCEPT ![w] = "raised"]
            /\ UNCHANGED wlog

\* renewal_worker_function from its entry to the end of the validation loop
WReceive(w, event) ==
    /\ wpc[w] \in {"idle", "done"}
    /\ wresult' = [wresult EXCEPT ![w] = NoResult]
    /\ UNCHANGED lastRenewal
    /\ IF "data" \notin DOMAIN event
       THEN /\ wreq' = [wreq EXCEPT ![w] = None]
            /\ wpc' = [wpc EXCEPT ![w] = "done"]
            /\ wexit' = [wexit EXCEPT ![w] = "returned"]
            /\ wlog' = [wlog EXCEPT ![w] = "no_data"]
            /\ wconn' = [wconn EXCEPT ![w] = "none"]
            /\ wtrace' = [wtrace EXCEPT ![w] = {}]
            /\ wtx' = [wtx EXCEPT ![w] = {}]
       ELSE LET text == B64Decode(event.data)
                value == IF text = None THEN None ELSE JsonLoads(Get(text))
            IN IF text = None
               THEN /\ wreq' = [wreq EXCEPT ![w] = None]
                    /\ WorkerEnds(w, "binascii.Error", "none", {})
               ELSE IF value = None
               THEN /\ wreq' = [wreq EXCEPT ![w] = None]
                    /\ WorkerEnds(w, "JSONDecodeError", "none", {})
               ELSE IF ~IsObject(Get(value))
               THEN /\ wreq' = [wreq EXCEPT ![w] = value]
                    /\ WorkerEnds(w, "AttributeError", "none", {})
               ELSE IF \E f \in RequiredFields : f \notin DOMAIN Get(value)
               THEN /\ wreq' = [wreq EXCEPT ![w] = value]
                    /\ WorkerEnds(w, "ValueError", "none", {})
               ELSE /\ wreq' = [wreq EXCEPT ![w] = value]
                    /\ wpc' = [wpc EXCEPT ![w] = "renew"]
                    /\ wexit' = [wexit EXCEPT ![w] = "none"]
                    /\ wlog' = [wlog EXCEPT ![w] = "none"]
                    /\ wconn' = [wconn EXCEPT ![w] = "none"]
                    /\ wtrace' = [wtrace EXCEPT ![w] = {}]
                    /\ wtx' = [wtx EXCEPT ![w] = {}]

\* the trigger delivers a message of the topic (any of them, any number of times)
WDeliver(w) ==
    /\ \E i \in 1..Len(topic) : WReceive(w, [data |-> topic[i]])
    /\ UNCHANGED <<now, gmail_watches, gmail_mailbox_watches, topic, svars>>

\* the trigger delivers a message that carries every required field
WDeliverToken(w) ==
    /\ WReceive(w, [data |-> B64Encode(JsonDumps(TokenMessage("A1")))])
    /\ UNCHANGED <<now, gmail_watches, gmail_mailbox_watches, topic, svars>>

\* the trigger delivers an event that did not come from the Scanner
WDeliverOther(w) ==
    /\ \E event \in OtherEvents : WReceive(w, event)
    /\ UNCHANGED <<now, gmail_watches, gmail_mailbox_watches, topic, svars>>

\* the call of renew_gmail_watch and the branch on its result
WRenew(w) ==
    /\ wpc[w] = "renew"
    /\ LET req == Get(wreq[w]) IN
       IF ~({"access_token", "refresh_token"} \subseteq DOMAIN req)
       THEN /\ WorkerEnds(w, "KeyError", "none", wtrace[w])
            /\ UNCHANGED lastRenewal
       ELSE \E outcome \in {"no_config", "build_error", "http_error", "transport_error", "ok"} :
            \E answer \in ProviderResponses :
              CASE outcome \in {"no_config", "build_error"} ->
                     \* raised before users().watch() is called; caught in renew_gmail_watch
                     LET exc == IF outcome = "no_config" THEN "ValueError" ELSE "TypeError" IN
                     IF RenewCatches(exc)
                     THEN /\ wresult' = [wresult EXCEPT ![w] = NoResult]
                          /\ wpc' = [wpc EXCEPT ![w] = "done"]
                          /\ wexit' = [wexit EXCEPT ![w] = "returned"]
                          /\ wlog' = [wlog EXCEPT ![w] = "renew_failed"]
                          /\ UNCHANGED <<wconn, wtx, wtrace, lastRenewal>>
                     ELSE /\ WorkerEnds(w, exc, "none", wtrace[w])
                          /\ UNCHANGED lastRenewal
                [] outcome \in {"http_error", "transport_error"} ->
                     LET exc == IF outcome = "http_error" THEN "HttpError" ELSE "TransportError" IN
                     IF RenewCatches(exc)
                     THEN /\ wresult' = [wresult EXCEPT ![w] = NoResult]
                          /\ wpc' = [wpc EXCEPT ![w] = "done"]
                          /\ wexit' = [wexit EXCEPT ![w] = "returned"]
                          /\ wlog' = [wlog EXCEPT ![w] = "renew_failed"]
                          /\ wtrace' = [wtrace EXCEPT ![w] = @ \cup {"provider_call"}]
                          /\ UNCHANGED <<wconn, wtx, lastRenewal>>
                     ELSE /\ WorkerEnds(w, exc, "none", wtrace[w] \cup {"provider_call"})
                          /\ UNCHANGED lastRenewal
                [] outcome = "ok" ->
                     /\ wresult' = [wresult EXCEPT ![w] =
                                      [success |-> TRUE, history_id |-> answer.historyId,
                                       expiration |-> answer.expiration]]
                     /\ wtrace' = [wtrace EXCEPT ![w] = @ \cup {"provider_call"}]
                     /\ wpc' = [wpc EXCEPT ![w] = "update"]
                     /\ lastRenewal' = IF "account_id" \in DOMAIN req
                                       THEN [lastRenewal EXCEPT ![req.account_id] = Some(answer)]
                                       ELSE lastRenewal
                     /\ UNCHANGED <<wexit, wlog, wconn, wtx>>
    /\ UNCHANGED <<now, gmail_watches, gmail_mailbox_watches, topic, svars, wreq>>

\* update_watch_in_database up to the cursor: DATABASE_URL, connect, the
\* conversion of the expiration; finally closes conn when it was opened
WConnect(w) ==
    /\ wpc[w] = "update"
    /\ LET req == Get(wreq[w]) IN
       IF "account_id" \notin DOMAIN req
       THEN WorkerEnds(w, "KeyError", "none", wtrace[w])
       ELSE \E outcome \in {"no_database_url", "connect_error", "connected"} :
              CASE outcome = "no_database_url" -> WorkerEnds(w, "ValueError", "none", wtrace[w])
                [] outcome = "connect_error" -> WorkerEnds(w, "OperationalError", "none", wtrace[w])
                [] outcome = "connected" ->
                     IF wresult[w].expiration = None
                     THEN WorkerEnds(w, "TypeError", "closed", wtrace[w] \cup {"connect"})
                     ELSE /\ wconn' = [wconn EXCEPT ![w] = "open"]
                          /\ wtrace' = [wtrace EXCEPT ![w] = @ \cup {"connect"}]
                          /\ wpc' = [wpc EXCEPT ![w] = "execute"]
                          /\ UNCHANGED <<wexit, wlog, wtx, wresult>>
    /\ UNCHANGED <<now, gmail_watches, gmail_mailbox_watches, topic, svars, wreq, lastRenewal>>

\* rows the UPDATE of invocation w matches
Matched(w) ==
    {r \in DOMAIN gmail_mailbox_watches :
        Matches(gmail_mailbox_watches[r], Get(wreq[w]).account_id)}

\* cursor.execute(UPDATE ...) and the branch on cursor.rowcount.  The UPDATE
\* waits while another transaction holds a row it matches.
WExecute(w) ==
    /\ wpc[w] = "execute"
    /\ \A o \in Workers \ {w} : wtx[o] \cap Matched(w) = {}
    /\ \E executed \in BOOLEAN :
         IF ~executed
         THEN WorkerEnds(w, "OperationalError", "closed", wtrace[w])
         ELSE IF Commits(Cardinality(Matched(w)))
         THEN /\ wtx' = [wtx EXCEPT ![w] = Matched(w)]
              /\ wtrace' = [wtrace EXCEPT ![w] = @ \cup {"update"}]
              /\ wpc' = [wpc EXCEPT ![w] = "commit"]
              /\ UNCHANGED <<wexit, wlog, wconn, wresult>>
         ELSE /\ wtx' = [wtx EXCEPT ![w] = {}]
              /\ wtrace' = [wtrace EXCEPT ![w] = @ \cup {"update", "warning"}]
              /\ wconn' = [wconn EXCEPT ![w] = "closed"]
              /\ wpc' = [wpc EXCEPT ![w] = "done"]
              /\ wexit' = [wexit EXCEPT ![w] = "returned"]
              /\ wlog' = [wlog EXCEPT ![w] = "success"]
              /\ wresult' = [wresult EXCEPT ![w] = NoResult]
    /\ UNCHANGED <<now, gmail_watches, gmail_mailbox_watches, topic, svars, wreq, lastRenewal>>

\* conn.commit(), then finally conn.close() and the entry point's success log;
\* a failed commit leaves the rows as they were
WCommit(w) ==
    /\ wpc[w] = "commit"
    /\ \E committed \in BOOLEAN :
         IF committed
         THEN /\ gmail_mailbox_watches' =
                   [r \in DOMAIN gmail_mailbox_watches |->
                      IF r \in wtx[w]
                      THEN [gmail_mailbox_watches[r] EXCEPT
                              !.history_id = wresult[w].history_id,
                              !.watch_expiration =
                                  Some(FromTimestampMs(Get(wresult[w].expiration)))]
                      ELSE gmail_mailbox_watches[r]]
              /\ wtx' = [wtx EXCEPT ![w] = {}]
              /\ wtrace' = [wtrace EXCEPT ![w] = @ \cup {"commit"}]
              /\ wconn' = [wconn EXCEPT ![w] = "closed"]
              /\ wpc' = [wpc EXCEPT ![w] = "done"]
              /\ wexit' = [wexit EXCEPT ![w] = "returned"]
              /\ wlog' = [wlog EXCEPT ![w] = "success"]
              /\ wresult' = [wresult EXCEPT ![w] = NoResult]
         ELSE /\ WorkerEnds(w, "OperationalError", "closed", wtrace[w])
              /\ UNCHANGED gmail_mailbox_watches
    /\ UNCHANGED <<now, gmail_watches, topic, svars, wreq, lastRenewal>>

----------------------------------------------------------------------------
(* Specifications *)

InitScanner ==
    /\ spc = "idle"
    /\ sconn = "none"
    /\ squeried_at = 0
    /\ expiration_threshold = 0
    /\ watches = <<>>
    /\ sindex = 0
    /\ published_count = 0
    /\ response = NoResponse
    /\ tbase = 0
    /\ topic = <<>>

InitWorkers ==
    /\ wpc = [w \in Workers |-> "idle"]
    /\ wexit = [w \in Workers |-> "none"]
    /\ wlog = [w \in Workers |-> "none"]
    /\ wreq = [w \in Workers |-> None]
    /\ wresult = [w \in Workers |-> NoResult]
    /\ wconn = [w \in Workers |-> "none"]
    /\ wtx = [w \in Workers |-> {}]
    /\ wtrace = [w \in Workers |-> {}]
    /\ lastRenewal = [a \in Accounts |-> None]

\* the Scanner alone, over every table
ScannerInit ==
    /\ now = 0
    /\ gmail_watches \in WatchTables
    /\ gmail_mailbox_watches \in {t \in MailboxTables : t[1].is_active /\ t[3].is_active}
    /\ InitScanner
    /\ InitWorkers

ScannerNext == ScanInvoke \/ ScanQuery \/ ScanPublish \/ ScanReturn \/ Tick

SpecScanner == ScannerInit /\ [][ScannerNext]_vars

\* Worker invocations alone, on any event
WorkerInit ==
    /\ now = 0
    /\ gmail_watches \in {t \in WatchTables : \A r \in DOMAIN t :
                             t[r].is_active /\ t[r].expiration_time = Some(0)}
    /\ gmail_mailbox_watches \in MailboxTables
    /\ InitScanner
    /\ InitWorkers

WorkerNext ==
    \E w \in Workers :
        WDeliverOther(w) \/ WRenew(w) \/ WConnect(w) \/ WExecute(w) \/ WCommit(w)

SpecWorker == WorkerInit /\ [][WorkerNext]_vars

\* both functions: the Scanner, and one Worker invocation at a time that is
\* handed the topic's messages or a message with every required field
FullTables ==
    {t \in WatchTables :
        /\ t[1].is_active /\ t[1].expiration_time = Some(0)
        /\ t[2].is_active /\ t[2].expiration_time \in {Some(1), Some(MaxExp)}
        /\ ~t[3].is_active /\ t[3].expiration_time = Some(0)}

Init ==
    /\ now = 0
    /\ gmail_watches \in FullTables
    /\ gmail_mailbox_watches \in {t \in MailboxTables : t[1].is_active /\ t[3].is_active}
    /\ InitScanner
    /\ InitWorkers

Next ==
    \/ ScanInvoke \/ ScanQuery \/ ScanPublish \/ ScanReturn \/ Tick
    \/ WDeliver(1) \/ WDeliverToken(1) \/ WRenew(1) \/ WConnect(1) \/ WExecute(1) \/ WCommit(1)

Spec == Init /\ [][Next]_vars

----------------------------------------------------------------------------
(* Properties *)

\* the current Scanner invocation's query returned normally
QueryReturned == sconn = "closed"

\* the payloads the current Scanner invocation has put on the topic
Published == SubSeq(topic, tbase + 1, Len(topic))

\* the decoded message of Worker invocation w is an object
HasRequest(w) == wreq[w] # None /\ IsObject(Get(wreq[w]))

\* the message of Worker invocation w is one the Scanner published
FromScanner(w) ==
    /\ HasRequest(w)
    /\ \E i \in 1..Len(topic) : topic[i] = B64Encode(JsonDumps(Get(wreq[w])))

\* C1: every message the Scanner publishes is one the Worker accepts and acts
\* on: the Worker invocation that consumes it reaches the provider, and when the
\* provider answers with a historyId and an expiration it issues the UPDATE of
\* the account's active row.
C1_EndToEnd ==
    \A w \in Workers :
        (wpc[w] = "done" /\ FromScanner(w)) =>
            /\ wlog[w] \in {"success", "renew_failed"}
            /\ "provider_call" \in wtrace[w]
            /\ (wlog[w] = "success" => "update" \in wtrace[w])

\* C2: when the query returns, the list holds exactly the rows that are active
\* and have expiration_time <= now + 2 hours (now taken when the query ran):
\* no inactive row, no row expiring later, every eligible row exactly once,
\* in ascending order of expiration_time.
C2_SelectsExactlyEligible ==
    QueryReturned =>
        LET limit == squeried_at + 2
            RowOf(d) == {i \in DOMAIN gmail_watches : gmail_watches[i].watch_id = d.watch_id}
        IN /\ \A k \in 1..Len(watches) :
                \E i \in RowOf(watches[k]) :
                    /\ gmail_watches[i].is_active
                    /\ gmail_watches[i].expiration_time # None
                    /\ Get(gmail_watches[i].expiration_time) <= limit
                    /\ watches[k].user_id = gmail_watches[i].user_id
                    /\ watches[k].email = gmail_watches[i].email
                    /\ watches[k].expiration_time # None
                    /\ FromIso(Get(watches[k].expiration_time)) =
                           Get(gmail_watches[i].expiration_time)
           /\ \A i \in DOMAIN gmail_watches :
                (/\ gmail_watches[i].is_active
                 /\ gmail_watches[i].expiration_time # None
                 /\ Get(gmail_watches[i].expiration_time) <= limit)
                => Cardinality({k \in 1..Len(watches) :
                                  watches[k].watch_id = gmail_watches[i].watch_id}) = 1
           /\ \A k \in 1..Len(watches) - 1 :
                FromIso(Get(watches[k].expiration_time)) <=
                    FromIso(Get(watches[k + 1].expiration_time))

\* C2's case: a query returned two watches in order, the second exactly at
\* the limit and stored before the first, and left out the third row, which is
\* inactive inside the window or active beyond it
C2_Witness ==
    /\ QueryReturned
    /\ Len(watches) = 2
    /\ FromIso(Get(watches[1].expiration_time)) < FromIso(Get(watches[2].expiration_time))
    /\ FromIso(Get(watches[2].expiration_time)) = squeried_at + 2
    /\ watches[2].watch_id = gmail_watches[1].watch_id
    /\ \E i \in DOMAIN gmail_watches :
         \/ ~gmail_watches[i].is_active /\ gmail_watches[i].expiration_time = Some(0)
         \/ gmail_watches[i].is_active /\ gmail_watches[i].expiration_time = Some(squeried_at + 3)

\* C3: renewal_worker_function never lets an exception escape: every
\* invocation that has ended returned normally, whatever the event, the
\* configuration, the provider and the store did.
C3_NeverRaises ==
    \A w \in Workers :
        /\ wexit[w] # "raised"
        /\ (wpc[w] = "done" => wexit[w] = "returned")

\* C3's case: an invocation ended by a store failure after its connection was
\* opened, and still returned
C3_Witness ==
    \E w \in Workers :
        /\ wpc[w] = "done"
        /\ wlog[w] = "failed"
        /\ {"provider_call", "connect"} \subseteq wtrace[w]
        /\ wexit[w] = "returned"

\* C4: a Worker invocation whose decoded message lacks one of account_id,
\* user_id, email, access_token, refresh_token calls the provider never, opens
\* no connection and issues no UPDATE.
C4_MissingFieldNoEffect ==
    \A w \in Workers :
        (/\ HasRequest(w)
         /\ \E f \in {"account_id", "user_id", "email", "access_token", "refresh_token"} :
                f \notin DOMAIN Get(wreq[w]))
        => /\ wtrace[w] = {}
           /\ wconn[w] = "none"
           /\ wtx[w] = {}
           /\ wpc[w] = "done"

\* C4's case: an invocation ended on a message that lacks only account_id
C4_Witness ==
    \E w \in Workers :
        /\ wpc[w] = "done"
        /\ HasRequest(w)
        /\ DOMAIN Get(wreq[w]) = {"user_id", "email", "access_token", "refresh_token"}
        /\ wlog[w] = "failed"

\* C5: when two Worker invocations have processed the same message and both
\* renewed and committed, the account's active rows hold the history_id and
\* the expiration of the latest successful provider call.
C5_LatestCallWins ==
    \A w1, w2 \in Workers :
        (/\ w1 # w2
         /\ wpc[w1] = "done" /\ wpc[w2] = "done"
         /\ wlog[w1] = "success" /\ wlog[w2] = "success"
         /\ "commit" \in wtrace[w1] /\ "commit" \in wtrace[w2]
         /\ wreq[w1] = wreq[w2])
        => LET a == Get(wreq[w1]).account_id IN
           \A r \in DOMAIN gmail_mailbox_watches :
              (gmail_mailbox_watches[r].account_id = a /\ gmail_mailbox_watches[r].is_active)
              => /\ lastRenewal[a] # None
                 /\ gmail_mailbox_watches[r].history_id = Get(lastRenewal[a]).historyId
                 /\ gmail_mailbox_watches[r].watch_expiration =
                        Some(FromTimestampMs(Get(Get(lastRenewal[a]).expiration)))

\* C6 as stated: when a publish fails mid-batch the response carries a
\* watches_processed equal to the number of acknowledged publishes, which
\* differs from the number of eligible records.
C6_CountReportedOnFailure ==
    (spc = "done" /\ response.error = "publish") =>
        /\ response.watches_processed # None
        /\ Get(response.watches_processed) = Len(Published)
        /\ Get(response.watches_processed) # Len(watches)

\* C6 amended: a response that carries watches_processed (status 200) carries
\* the number of publishes acknowledged in the invocation, which is then also
\* the number of eligible records; with no eligible record the response is
\* 200, success, 0 and nothing is published; when a publish fails the response
\* is 500, success false and carries no watches_processed.
C6_CountOnSuccessOnly ==
    spc = "done" =>
        /\ response.statusCode \in {200, 500}
        /\ response.statusCode = 200 =>
              /\ response.success
              /\ response.watches_processed = Some(Len(Published))
              /\ Len(Published) = Len(watches)
        /\ (QueryReturned /\ watches = <<>>) =>
              /\ response.statusCode = 200
              /\ response.success
              /\ response.watches_processed = Some(0)
              /\ Published = <<>>
        /\ response.error = "publish" =>
              /\ response.statusCode = 500
              /\ ~response.success
              /\ response.watches_processed = None
              /\ Len(Published) < Len(watches)

\* C6's case: the last publish of three failed after two acknowledged ones
C6_Witness ==
    /\ spc = "done"
    /\ response.error = "publish"
    /\ Len(Published) = 2
    /\ Len(watches) = 3
    /\ response.watches_processed = None

\* C7: the Scanner publishes serially in selection order, one message per
\* selected record; if the publish of message K of N fails the invocation ends
\* with status 500 and success false, and the topic holds a message for
\* exactly the first K-1 selected records.
C7_StopsAtFirstFailure ==
    /\ QueryReturned =>
          /\ Len(Published) = sindex
          /\ sindex <= Len(watches)
          /\ \A k \in 1..Len(Published) :
                LET text == B64Decode(Published[k])
                    value == JsonLoads(Get(text))
                IN /\ text # None /\ value # None
                   /\ Get(value).watch_id = watches[k].watch_id
                   /\ Get(value).user_id = watches[k].user_id
                   /\ Get(value).email = watches[k].email
    /\ (spc = "done" /\ response.error = "publish") =>
          /\ QueryReturned
          /\ response.statusCode = 500
          /\ ~response.success
          /\ Len(Published) < Len(watches)

\* C7's case: the second publish of three failed
C7_Witness ==
    /\ spc = "done"
    /\ response.error = "publish"
    /\ Len(watches) = 3
    /\ Len(Published) = 1

\* a step changes only active rows of the account of an invocation that is
\* committing, and only their history_id and watch_expiration
UpdateFrame ==
    \A r \in DOMAIN gmail_mailbox_watches :
        gmail_mailbox_watches'[r] # gmail_mailbox_watches[r] =>
            /\ gmail_mailbox_watches[r].is_active
            /\ gmail_mailbox_watches'[r].is_active
            /\ gmail_mailbox_watches'[r].account_id = gmail_mailbox_watches[r].account_id
            /\ \E w \in Workers :
                 /\ wpc[w] = "commit"
                 /\ "commit" \in wtrace'[w]
                 /\ Get(wreq[w]).account_id = gmail_mailbox_watches[r].account_id

\* an UPDATE that matched no row: a warning, no commit, and the invocation
\* still returns and logs the renewal as successful; a commit only after an
\* UPDATE that matched an active row of the account
UpdateOutcome ==
    \A w \in Workers :
        /\ "warning" \in wtrace[w] =>
              /\ wpc[w] = "done"
              /\ wexit[w] = "returned"
              /\ wlog[w] = "success"
              /\ "commit" \notin wtrace[w]
              /\ wconn[w] = "closed"
              /\ ~\E r \in DOMAIN gmail_mailbox_watches :
                    /\ gmail_mailbox_watches[r].account_id = Get(wreq[w]).account_id
                    /\ gmail_mailbox_watches[r].is_active
        /\ "commit" \in wtrace[w] =>
              /\ "warning" \notin wtrace[w]
              /\ \E r \in DOMAIN gmail_mailbox_watches :
                    /\ gmail_mailbox_watches[r].account_id = Get(wreq[w]).account_id
                    /\ gmail_mailbox_watches[r].is_active

\* C8: an UPDATE for an account with no active row changes no row, commits
\* nothing, raises nothing and the invocation reports success with a warning;
\* a commit happens only when the UPDATE matched a row; rows of other accounts
\* and inactive rows are never modified.
C8_NoActiveRowIsNoOp == [](UpdateOutcome) /\ [][UpdateFrame]_vars

\* C8's case: an invocation for A2 ended with the warning while A2 has only an
\* inactive row, after another invocation had committed for A1 next to an
\* inactive row of A1
C8_Witness ==
    \E w, o \in Workers :
        /\ "warning" \in wtrace[w]
        /\ Get(wreq[w]).account_id = "A2"
        /\ ~gmail_mailbox_watches[3].is_active
        /\ "commit" \in wtrace[o]
        /\ gmail_mailbox_watches[1].history_id # Some("h0")
        /\ gmail_mailbox_watches[2].history_id = Some("h0")

\* C9: every store connection opened during an invocation of either function
\* is closed when the invocation ends.
C9_ConnectionsClosed ==
    /\ spc = "done" => sconn # "open"
    /\ \A w \in Workers : wpc[w] = "done" => wconn[w] # "open"

\* C10 as stated: a watch whose expiration_time is earlier than now is selected
\* by no Scanner pass.
C10_ExpiredNeverSelected ==
    QueryReturned =>
        \A k \in 1..Len(watches) :
            FromIso(Get(watches[k].expiration_time)) >= squeried_at

\* C10 amended: a renewal that fails in the Worker is not retried by the
\* Worker and commits nothing; every Scanner pass selects the watch while it
\* is active and its expiration_time is at most now + lookahead, also after it
\* has expired (expiration_time earlier than now).
C10_ExpiredStillSelected ==
    /\ \A w \in Workers :
          (wpc[w] = "done" /\ wlog[w] \in {"failed", "renew_failed"}) =>
              /\ "commit" \notin wtrace[w]
              /\ wtx[w] = {}
              /\ wexit[w] = "returned"
    /\ QueryReturned =>
          \A i \in DOMAIN gmail_watches :
              (/\ gmail_watches[i].is_active
               /\ gmail_watches[i].expiration_time # None
               /\ Get(gmail_watches[i].expiration_time) < squeried_at)
              => \E k \in 1..Len(watches) : watches[k].watch_id = gmail_watches[i].watch_id

\* C10's case: a Worker invocation failed on the message an earlier pass
\* published for a watch, and a later pass selected that watch after it expired
C10_Witness ==
    \E w \in Workers :
        /\ wpc[w] = "done"
        /\ wlog[w] = "failed"
        /\ FromScanner(w)
        /\ QueryReturned
        /\ FromIso(Get(wreq[w]).timestamp) < squeried_at
        /\ \E k \in 1..Len(watches) :
              /\ watches[k].watch_id = Get(wreq[w]).watch_id
              /\ FromIso(Get(watches[k].expiration_time)) < squeried_at
====
